---------------------------- MODULE Spec2Model ----------------------------
(***************************************************************************)
(* The page-break plugin of html2pdf (src/src/plugin/pagebreaks.js).       *)
(*                                                                         *)
(* The patched toContainer waits for the original toContainer, then runs   *)
(* toContainer_pagebreak: it reads the options, tags every element with a  *)
(* uid (addUIDRecursive), and walks the elements of the container in       *)
(* document order (pagebreak_loop), inserting padding divs before elements *)
(* and, deferred through the breakAfter array, after elements.             *)
(*                                                                         *)
(* Elements are named by their position: the root is <<>>, its i-th child  *)
(* is <<i>>, that child's j-th child is <<i, j>>.  The DOM is a map from   *)
(* each element to the sequence of its child items (elements and padding   *)
(* divs).  getBoundingClientRect is computed by a block-flow layout: the   *)
(* children of an element are stacked vertically, a leaf has its own       *)
(* height, an inner element is as tall as its children together.           *)
(***************************************************************************)
EXTENDS Integers, Sequences, FiniteSets, TLC

(***************************************************************************)
(* Bounds of the model.                                                    *)
(***************************************************************************)
\* Elements below the root in the trees of Spec.
MaxNodes == 3
\* Children of the root in the wide trees of SpecWide.
MaxWidth == 11
\* Children of one child of the root in the wide trees of SpecWide.
MaxSub == 1
\* Elements of a wide tree that carry a break request.
MaxMarked == 1
\* Break sources (style properties, marker class, selector lists) that one
\* element matches at the same time.
MaxSources == 2
\* Inner height of a page in px (this.prop.pageSize.inner.px.height).
PxPageHeight == 3

VARIABLES
    pc,          \* position in the promise chain of toContainer
    opt,         \* this.opt.pagebreak, as far as the pass reads it
    tree,        \* the elements of the container (positions), root included
    hgt,         \* own height of every leaf element
    quota,       \* how many more elements may carry break requests
    uid,         \* the uid attribute of every element
    dom,         \* child items of every element, in order
    breakAfter,  \* the breakAfter array
    els,         \* the elements the forEach walks
    idx,         \* number of elements of els the forEach has visited
    nPads,       \* padding divs created so far
    avoidShort,  \* elements resolved with avoid and at most a page high
    last,        \* what the last call of pagebreak_loop read and decided
    probe        \* the rules of one element, resolved again as sources are added

vars == <<pc, opt, tree, hgt, quota, uid, dom, breakAfter, els, idx, nPads,
          avoidShort, last, probe>>

Root == <<>>

(***************************************************************************)
(* Sequences.                                                              *)
(***************************************************************************)
Front(s) == SubSeq(s, 1, Len(s) - 1)

Last(s) == s[Len(s)]

Reverse(s) == [i \in 1..Len(s) |-> s[Len(s) + 1 - i]]

\* InsertAt putting x in the place of the item at i.
InsertAtReplacing(s, i, x) == SubSeq(s, 1, i - 1) \o <<x>> \o SubSeq(s, i + 1, Len(s))

\* s with x inserted before the item at i (after the last one for i past it).
InsertAt(s, i, x) == SubSeq(s, 1, i - 1) \o <<x>> \o SubSeq(s, i, Len(s))

\* StartsWith as a comparison for equality.
StartsWithAsEquals(s, p) == s = p

\* String.prototype.startsWith on strings given as sequences of characters.
StartsWith(s, p) == Len(p) <= Len(s) /\ SubSeq(s, 1, Len(p)) = p

(***************************************************************************)
(* The element tree.                                                       *)
(***************************************************************************)
Parent(n) == Front(n)

IsAncestor(a, n) == Len(a) < Len(n) /\ SubSeq(n, 1, Len(a)) = a

InSubtree(a, n) == n = a \/ IsAncestor(a, n)

NKids(T, n) == Cardinality({p \in T : Len(p) = Len(n) + 1 /\ Parent(p) = n})

RECURSIVE Preorder(_, _)
\* The elements of the subtree of n in document order.
Preorder(T, n) ==
    LET RECURSIVE Kids(_)
        Kids(i) == IF i >= NKids(T, n) THEN <<>>
                   ELSE Preorder(T, Append(n, i)) \o Kids(i + 1)
    IN  <<n>> \o Kids(0)

\* Els in post-order: the elements of a subtree before its root.
ElsPostorder(T) ==
    LET RECURSIVE Post(_)
        Post(n) ==
            LET RECURSIVE Kids(_)
                Kids(i) == IF i >= NKids(T, n) THEN <<>>
                           ELSE Post(Append(n, i)) \o Kids(i + 1)
            IN  Kids(0) \o <<n>>
    IN  Front(Post(Root))

\* root.querySelectorAll('*'): every element below the root, in document
\* order; the list is static, divs inserted later are not in it.
Els(T) == Tail(Preorder(T, Root))

RECURSIVE TreesUpTo(_)
\* Every tree with at most k elements below the root.
TreesUpTo(k) ==
    IF k = 0 THEN {{Root}}
    ELSE LET Smaller == TreesUpTo(k - 1)
         IN  Smaller \cup
             {T \cup {Append(n, NKids(T, n))} : <<T, n>> \in
                 {<<T, n>> \in Smaller \X UNION Smaller : n \in T}}

\* The root with w children, of which child c has g children.  With eleven
\* children of the root the uids of the children of child 1 are the uids of
\* children 10, 11, ... of the root.
WideTree(w, c, g) ==
    {Root} \cup {<<i>> : i \in 0..(w - 1)} \cup {<<c, j>> : j \in 0..(g - 1)}

WideTrees ==
    {WideTree(t[1], t[2], t[3]) : t \in
        {MaxWidth - 1, MaxWidth} \X {0, 1} \X (0..MaxSub)}

Leaves(T) == {n \in T : NKids(T, n) = 0}


(***************************************************************************)
(* addUIDRecursive.  A uid is a string of decimal digits, here a sequence  *)
(* of digits.                                                              *)
(***************************************************************************)
RECURSIVE IndexDigits(_)
\* The decimal digits of a child index, as the template literal prints it.
IndexDigits(i) == IF i < 10 THEN <<i>> ELSE IndexDigits(i \div 10) \o <<i % 10>>

RECURSIVE AddUIDRecursive(_, _, _)
\* The uid attributes set by addUIDRecursive(element, uid) on the subtree of
\* element: the element gets uid, its child number index gets uid followed
\* by the digits of index.
AddUIDRecursive(T, element, u) ==
    LET RECURSIVE ForEach(_)
        ForEach(index) ==
            IF index >= NKids(T, element) THEN <<>>
            ELSE AddUIDRecursive(T, Append(element, index), u \o IndexDigits(index))
                 \o ForEach(index + 1)
    IN  <<[el |-> element, uid |-> u]>> \o ForEach(0)

\* addUIDRecursive(root): uid defaults to 0.
TagAll(T) ==
    LET tags == AddUIDRecursive(T, Root, <<0>>)
    IN  [n \in T |-> tags[CHOOSE i \in 1..Len(tags) : tags[i].el = n].uid]

(***************************************************************************)
(* Layout: getBoundingClientRect under block flow.                         *)
(***************************************************************************)
ElItem(n) == [k |-> "el", id |-> n, h |-> 0, side |-> "", seq |-> 0]

\* A padding div: createElement('div', {style: {display: 'block', height}}).
\* id, side and seq record for which element, on which side and as which
\* div of the pass it was created.
PadItem(owner, height, sd, n) ==
    [k |-> "pad", id |-> owner, h |-> height, side |-> sd, seq |-> n]

\* The DOM of the container before the pass: elements only.
InitialDom(T) == [n \in T |-> [i \in 1..NKids(T, n) |-> ElItem(Append(n, i - 1))]]

RECURSIVE Height(_, _)
Height(d, n) ==
    LET RECURSIVE Sum(_)
        Sum(i) == IF i > Len(d[n]) THEN 0
                  ELSE (IF d[n][i].k = "el" THEN Height(d, d[n][i].id)
                        ELSE d[n][i].h) + Sum(i + 1)
    IN  hgt[n] + Sum(1)

ItemHeight(d, it) == IF it.k = "el" THEN Height(d, it.id) ELSE it.h

\* Position of element n among the child items of its parent.
IndexOf(d, n) == CHOOSE i \in 1..Len(d[Parent(n)]) : d[Parent(n)][i] = ElItem(n)

RECURSIVE Top(_, _)
Top(d, n) ==
    IF n = Root THEN 0
    ELSE LET items == d[Parent(n)]
             RECURSIVE Above(_)
             Above(i) == IF i >= IndexOf(d, n) THEN 0
                         ELSE ItemHeight(d, items[i]) + Above(i + 1)
         IN  Top(d, Parent(n)) + Above(1)

Bottom(d, n) == Top(d, n) + Height(d, n)

getBoundingClientRect(d, n) == [top |-> Top(d, n), bottom |-> Bottom(d, n)]

\* el.parentNode.insertBefore(pad, el)
InsertBefore(d, pad, n) ==
    [d EXCEPT ![Parent(n)] = InsertAt(@, IndexOf(d, n), pad)]

\* InsertAfter with el in the place of el.nextSibling.
InsertAfterBeforeOwner(d, pad, n) ==
    [d EXCEPT ![Parent(n)] = InsertAt(@, IndexOf(d, n), pad)]

\* el.parentNode.insertBefore(pad, el.nextSibling)
InsertAfter(d, pad, n) ==
    [d EXCEPT ![Parent(n)] = InsertAt(@, IndexOf(d, n) + 1, pad)]

(***************************************************************************)
(* The break rules of one element (pagebreak_loop, first half).            *)
(***************************************************************************)
ModeNames == {"avoid-all", "css", "legacy"}

Keys == {"before", "after", "avoid"}

\* var mode = {avoidAll, css, legacy}, from the modes requested.
Mode(modeSrc) ==
    [avoidAll |-> "avoid-all" \in modeSrc,
     css      |-> "css" \in modeSrc,
     legacy   |-> "legacy" \in modeSrc]

breakOpt == {"always", "page", "left", "right"}

avoidOpt == {"avoid", "avoid-page"}

\* a || b on strings: the empty string (or a missing property) is falsy.
OrElse(a, b) == IF a # "" THEN a ELSE b

\* select[key].indexOf(el) !== -1: select[key] holds the elements matching
\* the selectors of opt.pagebreak[key], and is empty for 'avoid' in
\* avoid-all mode.
InSelect(mode, key, facts) ==
    IF mode.avoidAll /\ key = "avoid" THEN FALSE ELSE facts.match[key]

\* Rules based on legacy and avoidAll modes.
LegacyRules(mode, facts) ==
    [before |-> FALSE,
     after  |-> mode.legacy /\ facts.legacy,
     avoid  |-> mode.avoidAll]

\* CssRules with the style alone deciding, the rules so far dropped.
CssRulesOverwrite(mode, facts, rules) ==
    IF mode.css
    THEN [before |-> OrElse(facts.style.breakBefore,
                            facts.style.pageBreakBefore) \in breakOpt,
          after  |-> OrElse(facts.style.breakAfter,
                            facts.style.pageBreakAfter) \in breakOpt,
          avoid  |-> OrElse(facts.style.breakInside,
                            facts.style.pageBreakInside) \in avoidOpt]
    ELSE rules

\* CssRules without the test of mode.css.
CssRulesWhateverMode(mode, facts, rules) ==
    [before |-> rules.before
                \/ OrElse(facts.style.breakBefore,
                          facts.style.pageBreakBefore) \in breakOpt,
     after  |-> rules.after
                \/ OrElse(facts.style.breakAfter,
                          facts.style.pageBreakAfter) \in breakOpt,
     avoid  |-> rules.avoid
                \/ OrElse(facts.style.breakInside,
                          facts.style.pageBreakInside) \in avoidOpt]

\* Rules for css mode.
CssRules(mode, facts, rules) ==
    IF mode.css
    THEN [before |-> rules.before
                     \/ OrElse(facts.style.breakBefore,
                               facts.style.pageBreakBefore) \in breakOpt,
          after  |-> rules.after
                     \/ OrElse(facts.style.breakAfter,
                               facts.style.pageBreakAfter) \in breakOpt,
          avoid  |-> rules.avoid
                     \/ OrElse(facts.style.breakInside,
                               facts.style.pageBreakInside) \in avoidOpt]
    ELSE rules

\* Rules for explicit requests.
ExplicitRules(mode, facts, rules) ==
    [key \in Keys |-> rules[key] \/ InSelect(mode, key, facts)]

\* The rules of an element before the avoid check.
MergedRules(mode, facts) ==
    ExplicitRules(mode, facts, CssRules(mode, facts, LegacyRules(mode, facts)))

\* AvoidPromotes without the check of the length.
AvoidPromotesAnyLength(rules, clientRect) ==
    /\ rules.avoid /\ ~rules.before
    /\ (clientRect.bottom - 1) \div PxPageHeight
          # clientRect.top \div PxPageHeight

\* AvoidPromotes for elements less than one page long only.
AvoidPromotesShorter(rules, clientRect) ==
    /\ rules.avoid /\ ~rules.before
    /\ (clientRect.bottom - 1) \div PxPageHeight
          # clientRect.top \div PxPageHeight
    /\ clientRect.bottom - clientRect.top < PxPageHeight

\* Avoid: whether rules.before is turned on because the element is broken
\* and at most one page long.
AvoidPromotes(rules, clientRect) ==
    /\ rules.avoid /\ ~rules.before
    /\ LET startPage == clientRect.top \div PxPageHeight
           endPage   == (clientRect.bottom - 1) \div PxPageHeight
           span      == IF clientRect.bottom >= clientRect.top
                        THEN clientRect.bottom - clientRect.top
                        ELSE clientRect.top - clientRect.bottom
       IN  endPage # startPage /\ span <= PxPageHeight

\* BeforeHeight from the bottom of the element.
BeforeHeightFromBottom(clientRect) ==
    PxPageHeight - (clientRect.bottom % PxPageHeight)

\* BeforeHeight with no height for an element at the top of a page.
BeforeHeightNoneAtBoundary(clientRect) ==
    (PxPageHeight - (clientRect.top % PxPageHeight)) % PxPageHeight

\* Height of the padding div that pushes the element to the next page.
BeforeHeight(clientRect) == PxPageHeight - (clientRect.top % PxPageHeight)

\* AfterHeight from the top of the element.
AfterHeightFromTop(clientRect) == PxPageHeight - (clientRect.top % PxPageHeight)

\* Height of the padding div that fills the page after the element.
AfterHeight(clientRect) == PxPageHeight - (clientRect.bottom % PxPageHeight)

(***************************************************************************)
(* What an element looks like to the pass: its computed style, whether it  *)
(* carries the class html2pdf__page-break, and which selector lists it     *)
(* matches.                                                                *)
(***************************************************************************)
Style(bb, pbb, ba, pba, bi, pbi) ==
    [breakBefore |-> bb, pageBreakBefore |-> pbb,
     breakAfter |-> ba, pageBreakAfter |-> pba,
     breakInside |-> bi, pageBreakInside |-> pbi]

PlainStyle == Style("auto", "auto", "auto", "auto", "auto", "auto")

PlainFacts ==
    [style |-> PlainStyle, legacy |-> FALSE, match |-> [key \in Keys |-> FALSE]]

\* The computed styles of the walk: the current property names, or only the
\* older page-break-* names (the current ones missing).
WalkStyles ==
    {Style(b[1], b[2], a[1], a[2], i[1], i[2]) :
        <<b, a, i>> \in {<<"auto", "auto">>, <<"page", "always">>}
                     \X {<<"auto", "auto">>, <<"", "always">>}
                     \X {<<"auto", "auto">>, <<"avoid", "avoid">>}}

\* Number of break sources an element matches.
NumSources(f) ==
    Cardinality({x \in {"breakBefore", "breakAfter", "breakInside"} :
                    f.style[x] # "auto"})
    + (IF f.legacy THEN 1 ELSE 0)
    + Cardinality({key \in Keys : f.match[key]})

WalkFacts ==
    {f \in [style : WalkStyles, legacy : BOOLEAN, match : [Keys -> BOOLEAN]] :
        NumSources(f) <= MaxSources}

(***************************************************************************)
(* The breakAfter array.  An entry is [uid, fn, executed]; fn is a closure *)
(* over el, kept here as el.  firedAt and runs record at which element's   *)
(* visit fn ran last and how often it ran.                                 *)
(***************************************************************************)
Entry(u, element) ==
    [uid |-> u, el |-> element, executed |-> FALSE, firedAt |-> Root, runs |-> 0]

\* pendingBreakAfters without the reverse().
pendingBreakAftersInOrder(ba, currentUid) ==
    LET all       == [i \in 1..Len(ba) |-> i]
        pending   == SelectSeq(all, LAMBDA i : ~ba[i].executed)
    IN  SelectSeq(pending, LAMBDA i : ~StartsWith(currentUid, ba[i].uid))

\* pendingBreakAfters without the filter on the uid.
pendingBreakAftersAll(ba, currentUid) ==
    LET all       == [i \in 1..Len(ba) |-> i]
        pending   == SelectSeq(all, LAMBDA i : ~ba[i].executed)
    IN  Reverse(pending)

\* Indexes of the breakAfters that require execution, in the order in which
\* they are executed.
pendingBreakAfters(ba, currentUid) ==
    LET all       == [i \in 1..Len(ba) |-> i]
        pending   == SelectSeq(all, LAMBDA i : ~ba[i].executed)
        left      == SelectSeq(pending,
                               LAMBDA i : ~StartsWith(currentUid, ba[i].uid))
    IN  Reverse(left)

\* arr[1](): the padding div after el, from its bounding rectangle now.
BreakAfterFn(d, element, n) ==
    InsertAfter(d,
                PadItem(element, AfterHeight(getBoundingClientRect(d, element)),
                        "after", n),
                element)

\* MarkExecuted without the assignment of true.
MarkExecutedNot(e, current) ==
    [e EXCEPT !.firedAt = current, !.runs = @ + 1]

\* arr[2] = true
MarkExecuted(e, current) ==
    [e EXCEPT !.executed = TRUE, !.firedAt = current, !.runs = @ + 1]

RECURSIVE RunPending(_, _, _, _)
\* pendingBreakAfters(el).forEach: run each function and mark it executed.
RunPending(st, due, k, current) ==
    IF k > Len(due) THEN st
    ELSE RunPending(
            [dom |-> BreakAfterFn(st.dom, st.ba[due[k]].el, st.n + 1),
             ba  |-> [st.ba EXCEPT ![due[k]] = MarkExecuted(@, current)],
             n   |-> st.n + 1],
            due, k + 1, current)

(***************************************************************************)
(* The promise chain and the pass.                                         *)
(***************************************************************************)
Heights == {0, PxPageHeight - 1, PxPageHeight, PxPageHeight + 1}

NoVisit ==
    [el |-> Root, rules |-> [key \in Keys |-> FALSE], inBefore |-> FALSE,
     top |-> 0, bottom |-> 0, promoted |-> FALSE, fired |-> 0]

NoProbe ==
    [mode |-> {}, facts |-> PlainFacts, rules |-> [key \in Keys |-> FALSE],
     prev |-> [key \in Keys |-> FALSE]]

\* The state common to every start: the original toContainer is pending.
Start ==
    /\ pc = "orig"
    /\ uid = [n \in tree |-> <<>>]
    /\ dom = InitialDom(tree)
    /\ breakAfter = <<>>
    /\ els = <<>>
    /\ idx = 0
    /\ nPads = 0
    /\ avoidShort = {}
    /\ last = NoVisit
    /\ probe = NoProbe

\* The modes of the walks: none, the default, avoid-all alone, all three.
WalkModes == {{}, {"css", "legacy"}, {"avoid-all"}, ModeNames}

\* select names the keys whose list of selectors is not empty, invalid the
\* key, if any, whose list holds a selector that is not valid.
Options == [mode : WalkModes, invalid : {"none"} \cup Keys, select : {Keys}]

Init ==
    /\ opt \in Options
    /\ tree \in TreesUpTo(MaxNodes)
    /\ opt.invalid # "none" => tree \in TreesUpTo(1)
    /\ hgt \in {h \in [tree -> Heights] :
                  \A n \in tree : NKids(tree, n) > 0 => h[n] = 0}
    /\ quota = [limited |-> FALSE, left |-> 0]
    /\ Start

\* Worker.template.opt.pagebreak
DefaultOptions == [mode |-> {"css", "legacy"}, invalid |-> "none", select |-> {}]

InitWide ==
    /\ opt = DefaultOptions
    /\ tree \in WideTrees
    /\ hgt = [n \in tree |-> IF NKids(tree, n) > 0 THEN 0 ELSE 1]
    /\ quota = [limited |-> TRUE, left |-> MaxMarked]
    /\ Start

\* orig.toContainer.call(this) resolves: toContainer_pagebreak is to run.
OrigResolves ==
    /\ pc = "orig"
    /\ pc' = "then"
    /\ UNCHANGED <<opt, tree, hgt, quota, uid, dom, breakAfter, els, idx, nPads,
                   avoidShort, last, probe>>

\* orig.toContainer.call(this) rejects: the then-callback never runs.
OrigRejects ==
    /\ pc = "orig"
    /\ pc' = "rejected"
    /\ UNCHANGED <<opt, tree, hgt, quota, uid, dom, breakAfter, els, idx, nPads,
                   avoidShort, last, probe>>

\* QueryThrows with the error of querySelectorAll swallowed.
QueryThrowsNever(o) == FALSE

\* Whether root.querySelectorAll(select[key].join(', ')) throws for some key:
\* the list of 'avoid' is not queried in avoid-all mode.
QueryThrows(o) ==
    /\ o.invalid # "none"
    /\ ~(Mode(o.mode).avoidAll /\ o.invalid = "avoid")

\* toContainer_pagebreak up to the loop: modes, selections, legacy elements,
\* uids, the empty breakAfter array.  If a query throws, the callback ends
\* there and the promise of the patched toContainer rejects.
Setup ==
    /\ pc = "then"
    /\ IF QueryThrows(opt)
       THEN /\ pc' = "thrown"
            /\ UNCHANGED <<uid, els>>
       ELSE /\ pc' = "loop"
            /\ uid' = TagAll(tree)
            /\ els' = Els(tree)
    /\ breakAfter' = <<>>
    /\ UNCHANGED <<opt, tree, hgt, quota, dom, idx, nPads, avoidShort, last, probe>>

\* What the next element may look like to the pass: it is in select[key]
\* only if opt.pagebreak[key] holds a selector.
FactsOf(o, q) ==
    IF q.limited /\ q.left = 0 THEN {PlainFacts}
    ELSE {f \in WalkFacts : \A key \in Keys : f.match[key] => key \in o.select}

\* The quota after an element that looks like facts.
Spend(q, facts) ==
    IF q.limited /\ facts # PlainFacts THEN [q EXCEPT !.left = @ - 1] ELSE q

\* PagebreakLoop with the position of el read before the pending breakAfter
\* functions run.
PagebreakLoopMeasuringFirst(el, rules, inBefore) ==
    LET due       == pendingBreakAfters(breakAfter, uid[el])
        clientRect == getBoundingClientRect(dom, el)
        ran       == RunPending([dom |-> dom, ba |-> breakAfter, n |-> nPads],
                                due, 1, el)
        pushed    == IF rules.after
                     THEN Append(ran.ba, Entry(uid[el], el))
                     ELSE ran.ba
        promoted  == AvoidPromotes(rules, clientRect)
        before    == rules.before \/ promoted
    IN  /\ breakAfter' = pushed
        /\ dom' = IF before
                  THEN InsertBefore(ran.dom,
                                    PadItem(el, BeforeHeight(clientRect),
                                            "before", ran.n + 1),
                                    el)
                  ELSE ran.dom
        /\ nPads' = IF before THEN ran.n + 1 ELSE ran.n
        /\ avoidShort' =
              IF rules.avoid /\ clientRect.bottom - clientRect.top <= PxPageHeight
              THEN avoidShort \cup {el} ELSE avoidShort
        /\ last' = [el |-> el, rules |-> rules, inBefore |-> inBefore,
                    top |-> clientRect.top,
                    bottom |-> clientRect.bottom, promoted |-> promoted,
                    fired |-> Len(due)]

\* One call of pagebreak_loop(el), rules being the rules of el before the
\* avoid check and inBefore whether select.before holds el.
PagebreakLoop(el, rules, inBefore) ==
    LET due       == pendingBreakAfters(breakAfter, uid[el])
        ran       == RunPending([dom |-> dom, ba |-> breakAfter, n |-> nPads],
                                due, 1, el)
        pushed    == IF rules.after
                     THEN Append(ran.ba, Entry(uid[el], el))
                     ELSE ran.ba
        clientRect == getBoundingClientRect(ran.dom, el)
        promoted  == AvoidPromotes(rules, clientRect)
        before    == rules.before \/ promoted
    IN  /\ breakAfter' = pushed
        /\ dom' = IF before
                  THEN InsertBefore(ran.dom,
                                    PadItem(el, BeforeHeight(clientRect),
                                            "before", ran.n + 1),
                                    el)
                  ELSE ran.dom
        /\ nPads' = IF before THEN ran.n + 1 ELSE ran.n
        /\ avoidShort' =
              IF rules.avoid /\ clientRect.bottom - clientRect.top <= PxPageHeight
              THEN avoidShort \cup {el} ELSE avoidShort
        /\ last' = [el |-> el, rules |-> rules, inBefore |-> inBefore,
                    top |-> clientRect.top,
                    bottom |-> clientRect.bottom, promoted |-> promoted,
                    fired |-> Len(due)]

\* The forEach over els visits the next element.
Visit ==
    /\ pc = "loop"
    /\ idx < Len(els)
    /\ \E given \in {<<MergedRules(Mode(opt.mode), facts), Spend(quota, facts),
                          InSelect(Mode(opt.mode), "before", facts)>> :
                        facts \in FactsOf(opt, quota)} :
          /\ PagebreakLoop(els[idx + 1], given[1], given[3])
          /\ quota' = given[2]
    /\ idx' = idx + 1
    /\ UNCHANGED <<pc, opt, tree, hgt, uid, els, probe>>

\* Return while elements are still to be visited.
ReturnBeforeLoopEnds ==
    /\ pc = "loop"
    /\ pc' = "resolved"
    /\ UNCHANGED <<opt, tree, hgt, quota, uid, dom, breakAfter, els, idx, nPads,
                   avoidShort, last, probe>>

\* The forEach is over: toContainer_pagebreak returns and the promise of the
\* patched toContainer resolves.
Return ==
    /\ pc = "loop"
    /\ idx = Len(els)
    /\ pc' = "resolved"
    /\ UNCHANGED <<opt, tree, hgt, quota, uid, dom, breakAfter, els, idx, nPads,
                   avoidShort, last, probe>>

Next == OrigResolves \/ OrigRejects \/ Setup \/ Visit \/ Return

Spec == Init /\ [][Next]_vars

SpecWide == InitWide /\ [][Next]_vars

\* No mode is requested, and opt.pagebreak.before alone holds selectors.
InitBefore ==
    /\ opt = [mode |-> {}, invalid |-> "none", select |-> {"before"}]
    /\ tree \in TreesUpTo(MaxNodes)
    /\ hgt \in {h \in [tree -> Heights] :
                  \A n \in tree : NKids(tree, n) > 0 => h[n] = 0}
    /\ quota = [limited |-> FALSE, left |-> 0]
    /\ Start

SpecBefore == InitBefore /\ [][Next]_vars

(***************************************************************************)
(* The rules of one element, resolved again each time a source is added:   *)
(* a mode is switched on, or the element is put into a selection.          *)
(***************************************************************************)
\* Computed styles: each property missing, auto or a break value under its
\* current name, auto or a break value under its older name.
RuleStyles ==
    {Style(b[1], b[2], a[1], a[2], i[1], i[2]) :
        <<b, a, i>> \in ({"", "auto", "always"} \X {"auto", "left"})
                     \X ({"", "auto", "page"} \X {"auto", "right"})
                     \X ({"", "auto", "avoid"} \X {"auto", "avoid-page"})}

RuleFacts == [style : RuleStyles, legacy : BOOLEAN, match : [Keys -> BOOLEAN]]

\* The rules of an element that looks like facts under the modes modeSrc,
\* next to the rules it had before.
Resolved(modeSrc, facts, before) ==
    [mode |-> modeSrc, facts |-> facts,
     rules |-> MergedRules(Mode(modeSrc), facts), prev |-> before]

InitRules ==
    /\ pc = "rules"
    /\ opt = DefaultOptions
    /\ tree = {Root}
    /\ hgt = [n \in tree |-> 0]
    /\ quota = [limited |-> FALSE, left |-> 0]
    /\ uid = [n \in tree |-> <<>>]
    /\ dom = InitialDom(tree)
    /\ breakAfter = <<>>
    /\ els = <<>>
    /\ idx = 0
    /\ nPads = 0
    /\ avoidShort = {}
    /\ last = NoVisit
    /\ probe \in {Resolved(m, f, MergedRules(Mode(m), f)) :
                    <<m, f>> \in (SUBSET ModeNames) \X RuleFacts}

\* One more mode is requested.
EnableMode ==
    /\ pc = "rules"
    /\ \E m \in ModeNames \ probe.mode :
          probe' = Resolved(probe.mode \cup {m}, probe.facts, probe.rules)
    /\ UNCHANGED <<pc, opt, tree, hgt, quota, uid, dom, breakAfter, els, idx,
                   nPads, avoidShort, last>>

\* The element matches the selectors of one more key.
AddToSelection ==
    /\ pc = "rules"
    /\ \E key \in Keys :
          /\ ~probe.facts.match[key]
          /\ probe' = Resolved(probe.mode,
                               [probe.facts EXCEPT !.match[key] = TRUE],
                               probe.rules)
    /\ UNCHANGED <<pc, opt, tree, hgt, quota, uid, dom, breakAfter, els, idx,
                   nPads, avoidShort, last>>

NextRules == EnableMode \/ AddToSelection

SpecRules == InitRules /\ [][NextRules]_vars

(***************************************************************************)
(* Properties.                                                             *)
(***************************************************************************)
Items(d) == UNION {{d[p][i] : i \in 1..Len(d[p])} : p \in DOMAIN d}

\* The padding divs created for element n on one side.
Pads(n, sd) == {it \in Items(dom) : it.k = "pad" /\ it.id = n /\ it.side = sd}

\* The item that follows element n among the children of its parent is a
\* div created after n.
PadFollows(n) ==
    /\ IndexOf(dom, n) < Len(dom[Parent(n)])
    /\ dom[Parent(n)][IndexOf(dom, n) + 1] \in Pads(n, "after")

\* The item that precedes element n among the children of its parent is a
\* div created before n.
PadPrecedes(n) ==
    /\ IndexOf(dom, n) > 1
    /\ dom[Parent(n)][IndexOf(dom, n) - 1] \in Pads(n, "before")

\* Position of element n in els.
PosOf(n) == CHOOSE i \in 1..Len(els) : els[i] = n

\* The elements after element n in document order outside its subtree.
Outside(n) == {m \in tree \ {Root} : PosOf(m) > PosOf(n) /\ ~InSubtree(n, m)}

\* The first of them.
FirstOutside(n) == CHOOSE m \in Outside(n) : \A o \in Outside(n) : PosOf(m) <= PosOf(o)

Walking == pc \in {"loop", "resolved"}

\* C1: when toContainer_pagebreak has returned, the function of every
\* breakAfter entry has run, and every element resolved with after has
\* exactly one padding div after it, as its next sibling.
C1_EveryBreakAfterFired ==
    pc = "resolved" =>
        \A i \in 1..Len(breakAfter) :
            /\ breakAfter[i].executed
            /\ Cardinality(Pads(breakAfter[i].el, "after")) = 1
            /\ PadFollows(breakAfter[i].el)

\* C2: the function of a breakAfter entry owned by X never runs at the visit
\* of X or of a descendant of X; as long as it has not run, the walk is
\* still inside the subtree of X; and if it has run, it ran at the visit of
\* the first element after X in document order outside the subtree of X.
C2_FiredOnLeavingSubtree ==
    Walking =>
        \A i \in 1..Len(breakAfter) :
            LET e == breakAfter[i]
            IN  /\ e.runs > 0 => /\ Outside(e.el) # {}
                                 /\ e.firedAt = FirstOutside(e.el)
                /\ e.runs = 0 => /\ ~e.executed
                                 /\ InSubtree(e.el, els[idx])

\* A breakAfter function has run, and later the walk visits an element
\* outside its owner's subtree whose uid starts with the owner's uid (a
\* child of the root with a two-digit index).
C2_Witness ==
    /\ Walking
    /\ \E i \in 1..Len(breakAfter) :
          /\ breakAfter[i].runs = 1
          /\ Len(last.el) = 1 /\ last.el[1] >= 10
          /\ StartsWith(uid[last.el], breakAfter[i].uid)
          /\ ~InSubtree(breakAfter[i].el, last.el)

\* C3: after addUIDRecursive(root) the uids of distinct elements differ, and
\* the uid of a is a prefix of the uid of b exactly if a is a proper
\* ancestor of b.
C3_UidDeterminesPosition ==
    Walking =>
        \A a, b \in tree :
            a # b => /\ uid[a] # uid[b]
                     /\ StartsWith(uid[b], uid[a]) <=> IsAncestor(a, b)

\* C4: the function of a breakAfter entry runs at most once, and no element
\* gets more than one padding div before it or more than one after it.
C4_AtMostOnce ==
    /\ \A i \in 1..Len(breakAfter) : breakAfter[i].runs <= 1
    /\ \A i, j \in 1..Len(breakAfter) :
          breakAfter[i].el = breakAfter[j].el => i = j
    /\ \A n \in tree \ {Root} :
          /\ Cardinality(Pads(n, "before")) <= 1
          /\ Cardinality(Pads(n, "after")) <= 1

\* An element has a padding div before it and one after it, and the walk
\* has gone on for two more visits since the one after it was created.
C4_Witness ==
    /\ Walking
    /\ \E i \in 1..Len(breakAfter) :
          /\ breakAfter[i].runs = 1
          /\ Pads(breakAfter[i].el, "before") # {}
          /\ Pads(breakAfter[i].el, "after") # {}
          /\ PosOf(breakAfter[i].firedAt) < idx

\* The div created after element n.
AfterPad(n) == CHOOSE it \in Pads(n, "after") : TRUE

\* C5: when the functions of two entries run at the same visit, the owner of
\* one containing the owner of the other, the div after the inner owner is
\* created before the div after the outer owner.
C5_InnerFirst ==
    \A i, j \in 1..Len(breakAfter) :
        (/\ breakAfter[i].runs > 0 /\ breakAfter[j].runs > 0
         /\ breakAfter[i].firedAt = breakAfter[j].firedAt
         /\ IsAncestor(breakAfter[i].el, breakAfter[j].el))
        => AfterPad(breakAfter[j].el).seq < AfterPad(breakAfter[i].el).seq

\* Two nested owners had their functions run at the same visit.
C5_Witness ==
    \E i, j \in 1..Len(breakAfter) :
        /\ breakAfter[i].runs > 0 /\ breakAfter[j].runs > 0
        /\ breakAfter[i].firedAt = breakAfter[j].firedAt
        /\ IsAncestor(breakAfter[i].el, breakAfter[j].el)

\* The divs inside the subtree of element n.
PadsInside(n) ==
    {it \in UNION {{dom[m][i] : i \in 1..Len(dom[m])} :
                      m \in {m \in tree : InSubtree(n, m)}} : it.k = "pad"}

Visited == Walking /\ idx >= 1

\* Whether the pixel rows from t to b - 1 lie on more than one page.
Straddles(t, b) == b > t /\ t \div PxPageHeight # (b - 1) \div PxPageHeight

\* C6: an element visited with before = true and top t >= 0 has a padding
\* div of height pxPageHeight - t mod pxPageHeight as its previous sibling,
\* and its top is then (floor(t / pxPageHeight) + 1) * pxPageHeight.
C6_BeforePadToNextPage ==
    (Visited /\ (last.rules.before \/ last.promoted) /\ last.top >= 0) =>
        /\ PadPrecedes(last.el)
        /\ dom[Parent(last.el)][IndexOf(dom, last.el) - 1].h
             = PxPageHeight - (last.top % PxPageHeight)
        /\ Top(dom, last.el) = ((last.top \div PxPageHeight) + 1) * PxPageHeight

\* An element beyond the first page, not at the top of a page, was visited
\* with before = true, after divs were created for earlier elements.
C6_Witness ==
    /\ Visited
    /\ last.rules.before
    /\ last.top > PxPageHeight
    /\ last.top % PxPageHeight # 0
    /\ Items(dom) \ {it \in Items(dom) : it.k = "el" \/ it.id = last.el} # {}
    /\ PadPrecedes(last.el)

\* C7: the padding div created by a breakAfter function is the next sibling
\* of the owner, its height is pxPageHeight - b mod pxPageHeight for the
\* bottom b the owner has when the function runs (and keeps from then on),
\* so the div ends, and what follows it starts, on a page boundary.
C7_AfterPadFillsPage ==
    \A i \in 1..Len(breakAfter) :
        breakAfter[i].runs > 0 =>
            LET owner == breakAfter[i].el
                b     == Bottom(dom, owner)
            IN  /\ PadFollows(owner)
                /\ AfterPad(owner).h = PxPageHeight - (b % PxPageHeight)
                /\ (b + AfterPad(owner).h) % PxPageHeight = 0

\* A breakAfter function has run whose owner got a div before it and a div
\* inside it after the entry was pushed.
C7_Witness ==
    \E i \in 1..Len(breakAfter) :
        /\ breakAfter[i].runs > 0
        /\ Pads(breakAfter[i].el, "before") # {}
        /\ PadsInside(breakAfter[i].el) # {}
        /\ AfterPad(breakAfter[i].el).h < PxPageHeight

\* C8: for an element with avoid = true and before = false after the rules
\* are merged, before is turned on exactly if the pages of its top and of
\* its last row differ and it is at most one page long; an element longer
\* than a page is not promoted and gets no div before it; an element whose
\* before was true already is not looked at.
C8_AvoidResolution ==
    Visited =>
        LET t == last.top
            b == last.bottom
            len == IF b >= t THEN b - t ELSE t - b
        IN  /\ (last.rules.avoid /\ ~last.rules.before) =>
                   (last.promoted <=>
                       (/\ t \div PxPageHeight # (b - 1) \div PxPageHeight
                        /\ len <= PxPageHeight))
            /\ (~last.rules.avoid \/ last.rules.before) => ~last.promoted
            /\ (last.rules.avoid /\ ~last.rules.before /\ len > PxPageHeight)
                   => Pads(last.el, "before") = {}
            /\ PadPrecedes(last.el) <=> (last.rules.before \/ last.promoted)

\* An element with avoid = true, longer than a page and broken by a page
\* boundary, was visited.
C8_Witness ==
    /\ Visited
    /\ last.rules.avoid /\ ~last.rules.before
    /\ last.bottom - last.top > PxPageHeight
    /\ Straddles(last.top, last.bottom)
    /\ Pads(last.el, "before") = {}

\* C10 as claimed: when the pass is over, no element resolved with avoid and
\* at most one page long at its visit is broken by a page boundary.
C10_AvoidNeverStraddles ==
    pc = "resolved" =>
        \A n \in avoidShort : ~Straddles(Top(dom, n), Bottom(dom, n))

\* C10 as amended: from its visit to the end of the pass, an element
\* resolved with avoid and at most one page long at its visit is not broken
\* by a page boundary as long as no padding div is inside its subtree.
C10_AvoidNotBrokenUnlessPaddedInside ==
    \A n \in avoidShort :
        PadsInside(n) = {} => ~Straddles(Top(dom, n), Bottom(dom, n))

\* The pass is over; an element with children, resolved with avoid, was
\* pushed to the next page, has no div inside, and divs were created for
\* other elements.
C10_Witness ==
    /\ pc = "resolved"
    /\ \E n \in avoidShort :
          /\ Pads(n, "before") # {}
          /\ NKids(tree, n) > 0
          /\ Bottom(dom, n) > Top(dom, n)
          /\ PadsInside(n) = {}
          /\ \E it \in Items(dom) : it.k = "pad" /\ it.id # n

\* C9: switching on one more mode or putting the element into one more
\* selection turns no flag of the merged rules from true to false, and each
\* flag is the OR of what the enabled sources contribute.
C9_Monotone ==
    pc = "rules" =>
        LET m == Mode(probe.mode)
            st == probe.facts.style
        IN  /\ \A key \in Keys : probe.prev[key] => probe.rules[key]
            /\ probe.rules.before <=>
                 \/ m.css /\ (IF st.breakBefore = "" THEN st.pageBreakBefore
                              ELSE st.breakBefore) \in breakOpt
                 \/ probe.facts.match.before
            /\ probe.rules.after <=>
                 \/ m.legacy /\ probe.facts.legacy
                 \/ m.css /\ (IF st.breakAfter = "" THEN st.pageBreakAfter
                              ELSE st.breakAfter) \in breakOpt
                 \/ probe.facts.match.after
            /\ probe.rules.avoid <=>
                 \/ m.avoidAll
                 \/ m.css /\ (IF st.breakInside = "" THEN st.pageBreakInside
                              ELSE st.breakInside) \in avoidOpt
                 \/ probe.facts.match.avoid

\* A source was added to an element that had a flag set by another source,
\* and a flag was added: avoid-all on top of an avoid selection and a legacy
\* marker, with css off.
C9_Witness ==
    /\ pc = "rules"
    /\ probe.mode = {"avoid-all", "legacy"}
    /\ probe.facts.legacy /\ probe.facts.match.avoid
    /\ probe.prev.after /\ probe.rules.after
    /\ probe.prev # probe.rules

\* C11: with no mode requested and selectors under before only, an element
\* has a padding div before it exactly if select.before holds it, every
\* padding div is a div before a visited element, and no breakAfter entry
\* and no div after an element exists.
C11_OnlySelectedGetBefore ==
    Walking =>
        /\ Visited => /\ PadPrecedes(last.el) <=> last.inBefore
                      /\ Pads(last.el, "before") # {} <=> last.inBefore
        /\ \A it \in Items(dom) :
              it.k = "pad" => it.side = "before" /\ PosOf(it.id) <= idx
        /\ \A n \in tree \ {Root} : Cardinality(Pads(n, "before")) <= 1
        /\ breakAfter = <<>>

\* The pass is over; of three elements one in select.before got a div
\* before it, and the element visited last, not in select.before, got none.
C11_Witness ==
    /\ pc = "resolved"
    /\ idx = MaxNodes
    /\ ~last.inBefore
    /\ Pads(last.el, "before") = {}
    /\ Cardinality({it \in Items(dom) : it.k = "pad"}) = 1

\* The elements among the child items of every element, in order.
ElementsOf(d) == [p \in DOMAIN d |-> SelectSeq(d[p], LAMBDA it : it.k = "el")]

\* C12: at every step of the pass each element is a child of the parent it
\* had before the pass, the children of every element are in the order
\* they had before the pass, and a step removes no item: it only adds
\* padding divs.
C12_OnlyInsertsPads ==
    /\ [](ElementsOf(dom) = InitialDom(tree))
    /\ [][/\ Items(dom) \subseteq Items(dom')
          /\ \A it \in Items(dom') \ Items(dom) : it.k = "pad"]_vars

\* The pass is over and has put a div before and a div after a first child
\* and a div before its sibling.
C12_Witness ==
    /\ pc = "resolved"
    /\ \E n \in tree \ {Root} :
          /\ Pads(n, "before") # {} /\ Pads(n, "after") # {}
          /\ \E m \in tree \ {Root} :
                /\ Parent(m) = Parent(n) /\ m # n
                /\ Pads(m, "before") # {}

\* Nothing of the pass has happened: no uid is set, no div is created.
Untouched ==
    /\ dom = InitialDom(tree)
    /\ nPads = 0
    /\ breakAfter = <<>>
    /\ \A n \in tree : uid[n] = <<>>

\* C13 as claimed: if a selector under before, after or avoid is not valid,
\* the pass never starts its walk, the promise rejects, and the container
\* holds no padding div.
C13_InvalidSelectorRejects ==
    opt.invalid # "none" =>
        /\ pc \in {"orig", "then", "rejected", "thrown"}
        /\ dom = InitialDom(tree)

\* C13 as amended: the same for a selector under before or after, and for
\* one under avoid unless the mode avoid-all is requested; the step after
\* the original toContainer has resolved is the rejection.
C13_QueriedInvalidSelectorRejects ==
    /\ []((/\ opt.invalid # "none"
           /\ ~(opt.invalid = "avoid" /\ "avoid-all" \in opt.mode)) =>
             /\ pc \in {"orig", "then", "rejected", "thrown"}
             /\ Untouched)
    /\ [][(/\ opt.invalid # "none"
           /\ ~(opt.invalid = "avoid" /\ "avoid-all" \in opt.mode)
           /\ pc = "then") => pc' = "thrown"]_vars

\* A selector under avoid is not valid, avoid-all is not requested, the
\* container holds an element, and the query has thrown.
C13_Witness ==
    /\ pc = "thrown"
    /\ opt.invalid = "avoid"
    /\ opt.mode = {"css", "legacy"}
    /\ tree # {Root}
    /\ Untouched

\* C14: nothing of the pass happens before the original toContainer has
\* resolved, and nothing ever if it rejects; the walk starts only from the
\* then-callback; the promise resolves only when every element is tagged
\* and visited; and once it has resolved, the container does not change.
C14_StageOrder ==
    /\ [](pc \in {"orig", "then", "rejected"} => Untouched)
    /\ [](pc = "resolved" =>
             /\ uid = TagAll(tree)
             /\ els = Els(tree)
             /\ idx = Len(els))
    /\ [][/\ pc' = "then" => pc \in {"orig", "then"}
          /\ pc' = "loop" => pc \in {"then", "loop"}
          /\ pc' = "resolved" => pc \in {"loop", "resolved"}
          /\ pc \in {"rejected", "thrown", "resolved"} => pc' = pc /\ dom' = dom]_vars

\* The promise has resolved after a pass that visited three elements and
\* created two divs.
C14_Witness ==
    /\ pc = "resolved"
    /\ idx = MaxNodes
    /\ nPads = 2

\* The container without the items in S.
Without(d, S) == [p \in DOMAIN d |-> SelectSeq(d[p], LAMBDA it : it \notin S)]

\* The divs created by the breakAfter functions that ran at the visit of n.
FiredAt(n) ==
    {it \in Items(dom) :
        /\ it.k = "pad" /\ it.side = "after"
        /\ \E i \in 1..Len(breakAfter) :
              /\ breakAfter[i].el = it.id
              /\ breakAfter[i].runs > 0
              /\ breakAfter[i].firedAt = n}

\* The rectangle of the element visited last as it was when its visit
\* began: without the divs of that visit.
RectBeforeVisit ==
    getBoundingClientRect(
        Without(dom, FiredAt(last.el) \cup Pads(last.el, "before")), last.el)

\* The rectangle of the element visited last as it was when the pending
\* breakAfter functions had run and its own div was not yet created.
RectAfterFiring ==
    getBoundingClientRect(Without(dom, Pads(last.el, "before")), last.el)

\* Whether an element with these rules and this rectangle is promoted.
Promotes(rules, rect) ==
    /\ rules.avoid /\ ~rules.before
    /\ rect.top \div PxPageHeight # (rect.bottom - 1) \div PxPageHeight
    /\ rect.bottom - rect.top <= PxPageHeight

\* C15 as claimed: the avoid decision for an element is taken before the
\* breakAfter functions due at its visit run, that is, on the rectangle
\* the element had when its visit began.
C15_AvoidDecidedBeforeFiring ==
    Visited => (last.promoted <=> Promotes(last.rules, RectBeforeVisit))

\* C15 as amended: at a visit the rules are merged, then the due breakAfter
\* functions run, then the element's own entry is pushed, then its
\* rectangle is read and the avoid decision taken on it, then the div
\* before it is created; the rectangle and the decision are those of the
\* container with the divs of the functions that just ran.
C15_AvoidDecidedAfterFiring ==
    Visited =>
        /\ [top |-> last.top, bottom |-> last.bottom] = RectAfterFiring
        /\ last.promoted <=> Promotes(last.rules, RectAfterFiring)
        /\ Cardinality(FiredAt(last.el)) = last.fired
        /\ \A f \in FiredAt(last.el), b \in Pads(last.el, "before") :
              /\ f.seq < b.seq
              /\ b.h = PxPageHeight - (RectAfterFiring.top % PxPageHeight)
        /\ last.rules.after =>
              /\ breakAfter[Len(breakAfter)].el = last.el
              /\ ~breakAfter[Len(breakAfter)].executed
              /\ \A i \in 1..Len(breakAfter) :
                    breakAfter[i].firedAt = last.el /\ breakAfter[i].runs > 0
                        => i < Len(breakAfter)

\* A breakAfter function ran at the visit of an element with avoid that
\* was broken by a page boundary when the visit began and, moved by the
\* div of that function, was no longer broken when its rectangle was read:
\* it is not promoted.
C15_Witness ==
    /\ Visited
    /\ last.fired > 0
    /\ last.bottom > last.top
    /\ Promotes(last.rules, RectBeforeVisit)
    /\ ~last.promoted
    /\ Pads(last.el, "before") = {}

RECURSIVE Flat(_, _)
\* The items of the subtree of element n as the container holds them now,
\* padding divs included, in document order.
Flat(d, n) ==
    LET RECURSIVE From(_)
        From(i) == IF i > Len(d[n]) THEN <<>>
                   ELSE (IF d[n][i].k = "el" THEN Flat(d, d[n][i].id)
                         ELSE <<d[n][i]>>) \o From(i + 1)
    IN  <<ElItem(n)>> \o From(1)

\* Position of an item in the document.
DocPos(it) ==
    LET all == Flat(dom, Root) IN CHOOSE i \in 1..Len(all) : all[i] = it

\* C16: the elements the walk visits are in strictly increasing document
\* order (so none is visited twice), each visit takes the next of them, the
\* list does not grow when divs are created, and every padding div and
\* every breakAfter entry belongs to a visited element, none to a div.
C16_WalkInDocumentOrder ==
    /\ [](Walking =>
             /\ \A i, j \in 1..Len(els) :
                   i < j => DocPos(ElItem(els[i])) < DocPos(ElItem(els[j]))
             /\ Visited => last.el = els[idx]
             /\ Len(els) + nPads + 1 = Len(Flat(dom, Root))
             /\ \A it \in Items(dom) :
                   it.k = "pad" => \E i \in 1..idx : els[i] = it.id
             /\ \A k \in 1..Len(breakAfter) :
                   \E i \in 1..idx : els[i] = breakAfter[k].el)
    /\ [][/\ idx' = idx \/ (idx' = idx + 1 /\ last'.el = els[idx + 1])
          /\ pc = "loop" => els' = els]_vars

\* A div was created after an element and one before the next element, and
\* the walk has gone on to that element's sibling.
C16_Witness ==
    /\ Visited
    /\ idx = 3
    /\ \E n \in tree \ {Root} :
          /\ Pads(n, "after") # {}
          /\ DocPos(AfterPad(n)) < DocPos(ElItem(last.el))
          /\ \E m \in tree \ {Root, last.el} :
                /\ Pads(m, "before") # {}
                /\ DocPos(AfterPad(n)) < DocPos(ElItem(m))

\* The elements that own a breakAfter entry.
Owners == {breakAfter[i].el : i \in 1..Len(breakAfter)}

RECURSIVE PopLeft(_, _)
\* A stack of exit actions on reaching element n: the owners on top whose
\* subtree does not hold n are popped, the top one first.
PopLeft(st, n) ==
    IF st.stack # <<>> /\ ~InSubtree(st.stack[Len(st.stack)], n)
    THEN PopLeft([stack  |-> Front(st.stack),
                  popped |-> Append(st.popped, st.stack[Len(st.stack)])], n)
    ELSE st

RECURSIVE StackRun(_)
\* The stack, and the owners popped so far in the order of popping, after
\* the first k elements of the walk: an element is pushed on entering it
\* if it owns an exit action.
StackRun(k) ==
    IF k = 0 THEN [stack |-> <<>>, popped |-> <<>>]
    ELSE LET left == PopLeft(StackRun(k - 1), els[k])
         IN  IF els[k] \in Owners
             THEN [left EXCEPT !.stack = Append(@, els[k])]
             ELSE left

\* The owners of the entries not yet executed, in the order of the array.
Unfired ==
    LET all == [i \in 1..Len(breakAfter) |-> i]
        open == SelectSeq(all, LAMBDA i : ~breakAfter[i].executed)
    IN  [i \in 1..Len(open) |-> breakAfter[open[i]].el]

\* The owners of the divs created by breakAfter functions, in the order in
\* which the divs were created.
FiredLog ==
    LET pad(k)  == CHOOSE it \in Items(dom) : it.k = "pad" /\ it.seq = k
        all     == [k \in 1..nPads |-> pad(k)]
        afters  == SelectSeq(all, LAMBDA it : it.side = "after")
    IN  [i \in 1..Len(afters) |-> afters[i].id]

\* C17: after every visit the owners of the entries not yet executed are
\* what a stack of exit actions holds, bottom first: the element visited
\* or ancestors of it, each inside the one before; and the functions that
\* have run ran in the order in which the stack pops.
C17_FlatListIsStack ==
    Walking =>
        /\ Unfired = StackRun(idx).stack
        /\ FiredLog = StackRun(idx).popped
        /\ \A i \in 1..Len(Unfired) :
              /\ InSubtree(Unfired[i], last.el)
              /\ \A j \in 1..Len(Unfired) :
                    i < j => IsAncestor(Unfired[i], Unfired[j])

\* The function of one entry has run while those of two others, one owner
\* inside the other, have not.
C17_Witness ==
    /\ Walking
    /\ Len(Unfired) = 2
    /\ Len(FiredLog) = 1

\* C18: a step of the walk leaves the top of every element visited before
\* it where it was; and every element with a padding div before it starts
\* on a page boundary, from its visit to the end of the pass.
C18_TopStaysOnceVisited ==
    /\ [][pc = "loop" =>
            \A n \in tree \ {Root} :
                PosOf(n) <= idx => Top(dom', n) = Top(dom, n)]_vars
    /\ [](Walking =>
             \A n \in tree \ {Root} :
                 Pads(n, "before") # {} => Top(dom, n) % PxPageHeight = 0)

\* The pass is over; an element got a div before it and, after its visit,
\* a div inside it and a div after it, and does not end on a page boundary.
C18_Witness ==
    /\ pc = "resolved"
    /\ \E n \in tree \ {Root} :
          /\ Pads(n, "before") # {}
          /\ PadsInside(n) # {}
          /\ Pads(n, "after") # {}
          /\ Bottom(dom, n) % PxPageHeight # 0

\* C19: an element is promoted only if at its visit it has pixel rows on
\* two pages; an element of height zero whose top is on a page boundary
\* is not promoted, and gets a div before it only if its rules say before.
C19_PromotedOnlyIfStraddling ==
    Visited =>
        /\ last.promoted => Straddles(last.top, last.bottom)
        /\ (last.bottom = last.top /\ last.top % PxPageHeight = 0) =>
              /\ ~last.promoted
              /\ Pads(last.el, "before") # {} => last.rules.before

\* C20: every padding div is higher than zero and at most a page high; a
\* div before an element is a page high exactly if the top the element had
\* at its visit was on a page boundary, a div after an element exactly if
\* the bottom of the element is.
C20_PadHeightInRange ==
    Walking =>
        /\ Visited => last.top >= 0 /\ last.bottom >= last.top
        /\ \A it \in Items(dom) :
              it.k = "pad" => 0 < it.h /\ it.h <= PxPageHeight
        /\ \A b \in Pads(last.el, "before") :
              b.h = PxPageHeight <=> last.top % PxPageHeight = 0
        /\ \A n \in tree \ {Root} :
              /\ \A b \in Pads(n, "before") :
                    b.h = PxPageHeight <=>
                        (Top(dom, n) - b.h) % PxPageHeight = 0
              /\ \A a \in Pads(n, "after") :
                    a.h = PxPageHeight <=> Bottom(dom, n) % PxPageHeight = 0

\* An element with before was visited right after the div after its elder
\* sibling, less than a page high, was created: it is at the top of a page
\* and gets a div a full page high.
C20_Witness ==
    /\ Visited
    /\ last.fired = 1
    /\ last.rules.before
    /\ \E f \in FiredAt(last.el) : f.h < PxPageHeight
    /\ \E b \in Pads(last.el, "before") : b.h = PxPageHeight

=============================================================================
